---- MODULE Spec2Model ----
(***************************************************************************)
(* Model of the Minecraft utilities plugin (plugins/builtin/               *)
(* minecraft_utils.py): the RCON command batch executor                    *)
(* execute_rcon_commands and the rich text sender send_rich_text, and of   *)
(* the inbound message matcher (adapters/minecraft/matchers/message.py).   *)
(*                                                                         *)
(* Text.  A Python str is a sequence of tokens; a token is a TLA+ string   *)
(* standing for an indivisible piece of text.  The tokens " ", "\n" and    *)
(* "\t" are the whitespace str.strip() removes; no other token begins or   *)
(* ends with whitespace that strip() could see, and every entry of         *)
(* RCON_ERROR_PREFIXES is one token.  str.startswith is the prefix test on *)
(* token sequences, "\n".join and f-strings are concatenations.  The       *)
(* Chinese literals of the source are written with the English wording of  *)
(* the docstring examples (source lines 232-240).                          *)
(*                                                                         *)
(* Python values.  An argument or a response that need not be a str is a   *)
(* record [isStr, s]; the commands argument is a record [isList, items].   *)
(*                                                                         *)
(* Specifications.  Spec and FairSpec: one call of execute_rcon_commands.  *)
(* PairSpec: two calls of it interleaved at their awaits.  RichSpec: one   *)
(* call of send_rich_text.  NormSpec: the message matcher.  Each one       *)
(* leaves the variables of the others as Init set them.                    *)
(***************************************************************************)
EXTENDS Naturals, Sequences, FiniteSets

VARIABLES
    pc,                 \* position of the coroutine: idle, loop, await, done, raised
    chat_key,           \* argument chat_key
    commands,           \* argument commands
    continue_on_error,  \* argument continue_on_error
    bot,                \* get_bot(chat_key) finds a live connection
    idx,                \* 1-based position of the for loop in commands
    results_log,        \* local results_log
    ret,                \* the returned str, once pc = "done"
    exc,                \* the exception raised to the caller, once pc = "raised"
    sent,               \* connection: the calls of send_rcon_command, in order; each is
                        \* [pos |-> loop position, command |-> text passed]
    inflight,           \* connection: round trips (indices of sent) not yet answered
    outcomes,           \* connection: what each answered round trip produced, in order
    \* send_rich_text
    rt_pc,              \* position: idle, get_channel, get_preset, push, send, done, raised
    rt_chat_key,        \* argument chat_key
    rt_json,            \* argument rich_text_json
    rt_bot,             \* get_bot(chat_key) finds a live connection
    rt_components,      \* local components
    rt_plain,           \* local plain_text_content
    rt_preset,          \* preset.name
    rt_exc,             \* the exception raised to the caller, once rt_pc = "raised"
    rt_at,              \* where it was raised: validate, or the await that raised
    history,            \* message_service: the bot messages pushed, in order
    mc_out,             \* connection: the messages passed to bot.send_msg, in order
    \* two concurrent calls of execute_rcon_commands
    tasks,              \* per call: its arguments, position and locals
    pending,            \* connection: the round trips not yet answered, by call
    answered,           \* connection: the calls whose round trips ended, in order
    \* the message matcher
    events,             \* the chat events handled, in order
    collected           \* the messages passed to collect_message, in order

batch_vars == <<pc, chat_key, commands, continue_on_error, bot, idx, results_log,
                ret, exc, sent, inflight, outcomes>>

rich_vars == <<rt_pc, rt_chat_key, rt_json, rt_bot, rt_components, rt_plain,
               rt_preset, rt_exc, rt_at, history, mc_out>>

pair_vars == <<tasks, pending, answered>>

norm_vars == <<events, collected>>

vars == <<batch_vars, rich_vars, pair_vars, norm_vars>>

-----------------------------------------------------------------------------
(* Bounds and input domains *)

MaxCmds == 3

Str(s) == [isStr |-> TRUE, s |-> s]
NotStr == [isStr |-> FALSE, s |-> <<>>]

List(items) == [isList |-> TRUE, items |-> items]
NotList == [isList |-> FALSE, items |-> <<>>]

Whitespace == {" ", "\n", "\t"}

ChatKeys ==
    { Str(<<"minecraft-", "survival">>),
      Str(<<"qq-", "12345">>),
      Str(<<>>),
      NotStr }

CommandValues ==
    { Str(<<"say Hello">>),
      Str(<<"invalid_command">>),
      Str(<<" ", "\t">>),
      NotStr }

SeqsUpTo(S, n) == UNION { [1..k -> S] : k \in 0..n }

CommandArgs == { List(items) : items \in SeqsUpTo(CommandValues, MaxCmds) } \cup { NotList }

Responses ==
    { Str(<<"Hello">>),
      Str(<<" ", "There are 2 players online:", "\n", "Steve, Alex", "\n">>),
      Str(<<" ">>),
      NotStr,
      Str(<<"Unknown or incomplete command", ", see below for error">>),
      Str(<<"\n", "Player not found">>),
      Str(<<"Error - ", "boom">>) }

ExceptionTexts == { <<"Connection reset by peer">>, <<>> }

-----------------------------------------------------------------------------
(* Text helpers *)

RECURSIVE LStrip(_)
LStrip(s) ==
    IF s # <<>> /\ Head(s) \in Whitespace THEN LStrip(Tail(s)) ELSE s

RECURSIVE RStrip(_)
RStrip(s) ==
    IF s # <<>> /\ s[Len(s)] \in Whitespace THEN RStrip(SubSeq(s, 1, Len(s) - 1)) ELSE s

Strip(s) == RStrip(LStrip(s))

StartsWith(s, prefix) ==
    Len(prefix) <= Len(s) /\ SubSeq(s, 1, Len(prefix)) = prefix

RECURSIVE JoinLines(_)
JoinLines(lines) ==
    IF lines = <<>> THEN <<>>
    ELSE IF Len(lines) = 1 THEN lines[1]
    ELSE lines[1] \o <<"\n">> \o JoinLines(Tail(lines))

DecimalDigits == <<"0", "1", "2", "3", "4", "5", "6", "7", "8", "9">>

\* The decimal text of a natural number, as an f-string formats it.
RECURSIVE IntToStr(_)
IntToStr(n) ==
    IF n < 10
    THEN <<DecimalDigits[n + 1]>>
    ELSE IntToStr(n \div 10) \o <<DecimalDigits[(n % 10) + 1]>>

RCON_ERROR_PREFIXES ==
    << <<"Unknown or incomplete command">>,
       <<"Incorrect argument">>,
       <<"Invalid player">>,
       <<"Player not found">>,
       <<"That player is not online">>,
       <<"You do not have permission to use this command">>,
       <<"Cannot give">>,
       <<"Invalid UUID">>,
       <<"No such entity">>,
       <<"That block is not a container">>,
       <<"Could not insert items">>,
       <<"Data tag parsing failed">>,
       <<"Expected">>,
       <<"Invalid command syntax">>,
       <<"An unexpected error occurred">>,
       <<"No targets matched selector">>,
       <<"The entity UUID is invalid">>,
       <<"Invalid command format">> >>

-----------------------------------------------------------------------------
(* execute_rcon_commands: pure parts *)

NoException == [type |-> "", msg |-> <<>>]
ValueError(msg) == [type |-> "ValueError", msg |-> msg]

ValidChatKey(ck) == ck.isStr /\ StartsWith(ck.s, <<"minecraft-">>)

ValidCommand(cmd) == cmd.isStr /\ Strip(cmd.s) # <<>>

\* Mutant: only the first element of the list is validated.
ValidCommandList_FirstOnly(cmds) ==
    cmds.isList /\ (cmds.items # <<>> => ValidCommand(cmds.items[1]))

ValidCommandList(cmds) ==
    cmds.isList /\ \A k \in 1..Len(cmds.items) : ValidCommand(cmds.items[k])

\* Mutant: the connection check is skipped.
BotMissing_Never(live) == FALSE

\* "if not bot:"
BotMissing(live) == ~live

ResponseMsg(response) == IF response.isStr THEN Strip(response.s) ELSE <<>>

\* Mutant: only the first entry of RCON_ERROR_PREFIXES is tried.
IsError_FirstPrefixOnly(response_msg) ==
    /\ response_msg # <<>>
    /\ StartsWith(response_msg, RCON_ERROR_PREFIXES[1])

IsError(response_msg) ==
    /\ response_msg # <<>>
    /\ \E k \in 1..Len(RCON_ERROR_PREFIXES) : StartsWith(response_msg, RCON_ERROR_PREFIXES[k])

NoOutputText == <<"command executed, no output">>

\* Mutant: an empty response is reported as it is.
ResultStr_NoPlaceholder(response_msg) == response_msg

ResultStr(response_msg) == IF response_msg # <<>> THEN response_msg ELSE NoOutputText

SuccessLine(command, result_str) ==
    <<"Command '">> \o command \o <<"': ">> \o result_str

\* Mutant: the failure entry loses its "Error - " mark.
ErrorLine_Unmarked(command, detail) ==
    <<"Command '">> \o command \o <<"': ">> \o detail

ErrorLine(command, detail) ==
    <<"Command '">> \o command \o <<"': ">> \o <<"Error - ">> \o detail

\* Mutant: the fail-fast report forgets the earlier successes.
ErrorResponse_DropsLog(command, detail, log) ==
    <<"Error executing command '">> \o command \o <<"': ">> \o detail

ErrorResponse(command, detail, log) ==
    <<"Error executing command '">> \o command \o <<"': ">> \o detail
        \o (IF log # <<>>
            THEN <<"\n", "Previous results:", "\n">> \o JoinLines(log)
            ELSE <<>>)

UnavailableReport(ck) ==
    <<"Error: could not find or connect to Minecraft server: ">> \o ck

\* The two calls that run concurrently, and a call not yet made.
BatchIds == {1, 2}

IdleTask ==
    [pc |-> "idle", commands |-> <<>>, continue_on_error |-> FALSE, idx |-> 1,
     results_log |-> <<>>, ret |-> <<>>, outcomes |-> <<>>]

-----------------------------------------------------------------------------
(* State machine *)

Init ==
    /\ pc = "idle"
    /\ chat_key = NotStr
    /\ commands = NotList
    /\ continue_on_error = FALSE
    /\ bot = FALSE
    /\ idx = 1
    /\ results_log = <<>>
    /\ ret = <<>>
    /\ exc = NoException
    /\ sent = <<>>
    /\ inflight = {}
    /\ outcomes = <<>>
    /\ rt_pc = "idle"
    /\ rt_chat_key = NotStr
    /\ rt_json = NotStr
    /\ rt_bot = FALSE
    /\ rt_components = <<>>
    /\ rt_plain = <<>>
    /\ rt_preset = <<>>
    /\ rt_exc = NoException
    /\ rt_at = ""
    /\ history = <<>>
    /\ mc_out = <<>>
    /\ tasks = [b \in BatchIds |-> IdleTask]
    /\ pending = {}
    /\ answered = <<>>
    /\ events = <<>>
    /\ collected = <<>>

\* The call up to the for loop: pre-flight validation and connection lookup.
Call(ck, cmds, coe, live) ==
    /\ pc = "idle"
    /\ chat_key' = ck
    /\ commands' = cmds
    /\ continue_on_error' = coe
    /\ bot' = live
    /\ IF ~ValidChatKey(ck)
       THEN /\ pc' = "raised"
            /\ exc' = ValueError(<<"chat_key invalid, must be of the form 'minecraft-servername'.">>)
            /\ UNCHANGED ret
       ELSE IF ~ValidCommandList(cmds)
       THEN /\ pc' = "raised"
            /\ exc' = ValueError(<<"RCON command list invalid, must be a list of non-empty strings.">>)
            /\ UNCHANGED ret
       ELSE IF cmds.items = <<>>
       THEN /\ pc' = "raised"
            /\ exc' = ValueError(<<"RCON command list must not be empty.">>)
            /\ UNCHANGED ret
       ELSE IF BotMissing(live)
       THEN /\ pc' = "done"
            /\ ret' = UnavailableReport(ck.s)
            /\ UNCHANGED exc
       ELSE /\ pc' = "loop"
            /\ UNCHANGED <<ret, exc>>
    /\ UNCHANGED <<idx, results_log, sent, inflight, outcomes>>

\* Mutant: the remaining commands are all sent at once, none awaited.
SendCommand_FanOut ==
    /\ pc = "loop"
    /\ idx <= Len(commands.items)
    /\ sent' = sent \o [k \in 1..(Len(commands.items) - idx + 1) |->
                            [pos |-> idx + k - 1, command |-> commands.items[idx + k - 1].s]]
    /\ inflight' = inflight \cup ((Len(sent) + 1)..(Len(sent) + Len(commands.items) - idx + 1))
    /\ pc' = "await"
    /\ UNCHANGED <<chat_key, commands, continue_on_error, bot, idx, results_log,
                   ret, exc, outcomes>>

\* Loop head: the next command of the list goes to the connection and the
\* coroutine suspends in "await bot.send_rcon_command(command=command)".
SendCommand ==
    /\ pc = "loop"
    /\ idx <= Len(commands.items)
    /\ sent' = Append(sent, [pos |-> idx, command |-> commands.items[idx].s])
    /\ inflight' = inflight \cup {Len(sent) + 1}
    /\ pc' = "await"
    /\ UNCHANGED <<chat_key, commands, continue_on_error, bot, idx, results_log,
                   ret, exc, outcomes>>

\* Mutant: the policy flag is ignored, a semantic error never stops the batch.
OnSemanticError_IgnoresPolicy(command, response_msg) ==
    /\ results_log' = Append(results_log, ErrorLine(command, response_msg))
    /\ idx' = idx + 1
    /\ pc' = "loop"
    /\ UNCHANGED ret

\* "if is_error:" branch of the loop body.
OnSemanticError(command, response_msg) ==
    IF ~continue_on_error
    THEN /\ ret' = ErrorResponse(command, response_msg, results_log)
         /\ pc' = "done"
         /\ UNCHANGED <<results_log, idx>>
    ELSE /\ results_log' = Append(results_log, ErrorLine(command, response_msg))
         /\ idx' = idx + 1
         /\ pc' = "loop"
         /\ UNCHANGED ret

\* Mutant: the success entry is put in front of the log.
OnSuccess_Prepends(command, response_msg) ==
    /\ results_log' = <<SuccessLine(command, ResultStr(response_msg))>> \o results_log
    /\ idx' = idx + 1
    /\ pc' = "loop"
    /\ UNCHANGED ret

\* "else:" branch of the loop body: the command succeeded.
OnSuccess(command, response_msg) ==
    /\ results_log' = Append(results_log, SuccessLine(command, ResultStr(response_msg)))
    /\ idx' = idx + 1
    /\ pc' = "loop"
    /\ UNCHANGED ret

\* Mutant: under continue-on-error the exception is swallowed without an entry.
OnException_NoLog(command, e_text) ==
    IF ~continue_on_error
    THEN /\ ret' = ErrorResponse(command, e_text, results_log)
         /\ pc' = "done"
         /\ UNCHANGED <<results_log, idx>>
    ELSE /\ idx' = idx + 1
         /\ pc' = "loop"
         /\ UNCHANGED <<results_log, ret>>

\* Mutant: no except clause, the exception reaches the caller.
OnException_Propagates(command, e_text) ==
    /\ pc' = "raised"
    /\ UNCHANGED <<results_log, idx, ret>>

\* Mutant: the failed command is tried again.
OnException_Retries(command, e_text) ==
    /\ pc' = "loop"
    /\ UNCHANGED <<results_log, idx, ret>>

\* "except Exception as e:" branch of the loop body; e_text is str(e).
OnException(command, e_text) ==
    IF ~continue_on_error
    THEN /\ ret' = ErrorResponse(command, e_text, results_log)
         /\ pc' = "done"
         /\ UNCHANGED <<results_log, idx>>
    ELSE /\ results_log' = Append(results_log, ErrorLine(command, e_text))
         /\ idx' = idx + 1
         /\ pc' = "loop"
         /\ UNCHANGED ret

\* The awaited round trip returns a response.
RecvResponse(response) ==
    /\ pc = "await"
    /\ inflight' = inflight \ {Len(sent)}
    /\ outcomes' = Append(outcomes, [kind |-> "response", response |-> response, text |-> <<>>])
    /\ LET command == commands.items[idx].s
           response_msg == ResponseMsg(response)
       IN  IF IsError(response_msg)
           THEN OnSemanticError(command, response_msg)
           ELSE OnSuccess(command, response_msg)
    /\ UNCHANGED <<chat_key, commands, continue_on_error, bot, exc, sent>>

\* The awaited round trip raises an Exception whose str() is e_text.
RecvException(e_text) ==
    /\ pc = "await"
    /\ inflight' = inflight \ {Len(sent)}
    /\ outcomes' = Append(outcomes, [kind |-> "exception", response |-> NotStr, text |-> e_text])
    /\ OnException(commands.items[idx].s, e_text)
    /\ UNCHANGED <<chat_key, commands, continue_on_error, bot, exc, sent>>

\* The for loop is exhausted: return "\n".join(results_log).
LoopExit ==
    /\ pc = "loop"
    /\ idx > Len(commands.items)
    /\ ret' = JoinLines(results_log)
    /\ pc' = "done"
    /\ UNCHANGED <<chat_key, commands, continue_on_error, bot, idx, results_log,
                   exc, sent, inflight, outcomes>>

\* One call of execute_rcon_commands; nothing else runs.
Next ==
    \/ /\ pc = "idle"
       /\ \E ck \in ChatKeys, cmds \in CommandArgs, coe \in BOOLEAN, live \in BOOLEAN :
                Call(ck, cmds, coe, live)
       /\ UNCHANGED <<rich_vars, pair_vars, norm_vars>>
    \/ SendCommand /\ UNCHANGED <<rich_vars, pair_vars, norm_vars>>
    \/ /\ pc = "await"
       /\ \E response \in Responses : RecvResponse(response)
       /\ UNCHANGED <<rich_vars, pair_vars, norm_vars>>
    \/ /\ pc = "await"
       /\ \E e_text \in ExceptionTexts : RecvException(e_text)
       /\ UNCHANGED <<rich_vars, pair_vars, norm_vars>>
    \/ LoopExit /\ UNCHANGED <<rich_vars, pair_vars, norm_vars>>

Spec == Init /\ [][Next]_vars

\* Scheduling: the event loop runs the coroutine whenever it is runnable, and
\* every round trip is assumed to return or raise eventually.
RoundTripEnds ==
    \/ \E response \in Responses : RecvResponse(response)
    \/ \E e_text \in ExceptionTexts : RecvException(e_text)

FairSpec ==
    /\ Spec
    /\ WF_vars(SendCommand /\ UNCHANGED <<rich_vars, pair_vars, norm_vars>>)
    /\ WF_vars(RoundTripEnds /\ UNCHANGED <<rich_vars, pair_vars, norm_vars>>)
    /\ WF_vars(LoopExit /\ UNCHANGED <<rich_vars, pair_vars, norm_vars>>)

TypeOK ==
    /\ pc \in {"idle", "loop", "await", "done", "raised"}
    /\ idx \in 1..(MaxCmds + 1)
    /\ Len(results_log) <= MaxCmds
    /\ Len(sent) <= MaxCmds

-----------------------------------------------------------------------------
(* Properties of execute_rcon_commands *)

Called == pc # "idle"

NonBlank(s) == \E j \in 1..Len(s) : s[j] \notin Whitespace

\* The arguments pass the pre-flight validation of the specification.
InputValid ==
    /\ chat_key.isStr
    /\ chat_key.s # <<>>
    /\ chat_key.s[1] = "minecraft-"
    /\ commands.isList
    /\ commands.items # <<>>
    /\ \A k \in 1..Len(commands.items) :
            commands.items[k].isStr /\ NonBlank(commands.items[k].s)

Cmd(k) == commands.items[k].s

\* The k-th answered round trip was a TransportError or a SemanticError.
Failed(k) ==
    \/ outcomes[k].kind = "exception"
    \/ IsError(ResponseMsg(outcomes[k].response))

Detail(k) ==
    IF outcomes[k].kind = "exception"
    THEN outcomes[k].text
    ELSE ResponseMsg(outcomes[k].response)

\* The text a success entry carries for the k-th round trip.
SuccessText(k) ==
    LET m == ResponseMsg(outcomes[k].response)
    IN  IF m = <<>> THEN <<"command executed, no output">> ELSE m

LineOpeners == {"Command '", "Error executing command '"}

\* Number of result lines of a report: each begins with a line opener.
ResultLineCount(s) == Cardinality({ p \in 1..Len(s) : s[p] \in LineOpeners })

\* The command names a report mentions, in the order it mentions them.
RECURSIVE NameAfter(_)
NameAfter(s) ==
    IF s = <<>> \/ Head(s) = "': " THEN <<>> ELSE <<Head(s)>> \o NameAfter(Tail(s))

RECURSIVE Mentions(_)
Mentions(s) ==
    IF s = <<>> THEN <<>>
    ELSE IF Head(s) \in LineOpeners
         THEN <<NameAfter(Tail(s))>> \o Mentions(Tail(s))
         ELSE Mentions(Tail(s))

AttemptedInOrder == [k \in 1..Len(sent) |-> Cmd(k)]

\* C1 (fail-fast stop): with continue_on_error = FALSE, once a round trip
\* has ended in a SemanticError or a TransportError it is the last call made
\* on the connection: nothing is in flight, the call has returned, and in no
\* reachable state has a later command been sent.
C1_FailFastStop ==
    (Called /\ ~continue_on_error) =>
        \A k \in 1..Len(outcomes) :
            Failed(k) => (Len(sent) = k /\ inflight = {} /\ pc = "done")

C1_Witness ==
    /\ pc = "done" /\ ~continue_on_error
    /\ Len(commands.items) = 3 /\ Len(sent) = 2
    /\ ~Failed(1) /\ Failed(2)

\* C2 (fail-fast report): when the batch stops at the failing command at
\* position i, the report is the failing command with its error detail,
\* followed, only when i is not the first position, by the success entries
\* of exactly the commands before i, in list order; all of those commands
\* succeeded.
C2_FailFastReport ==
    (pc = "done" /\ ~continue_on_error /\ outcomes # <<>> /\ Failed(Len(outcomes))) =>
        LET i == Len(outcomes)
            prior == [k \in 1..(i - 1) |->
                        <<"Command '">> \o Cmd(k) \o <<"': ">> \o SuccessText(k)]
        IN  /\ sent[i].pos = i
            /\ \A k \in 1..(i - 1) : ~Failed(k)
            /\ ret = <<"Error executing command '">> \o Cmd(i) \o <<"': ">> \o Detail(i)
                        \o (IF i > 1
                            THEN <<"\n", "Previous results:", "\n">> \o JoinLines(prior)
                            ELSE <<>>)

C2_Witness ==
    /\ pc = "done" /\ ~continue_on_error
    /\ Len(outcomes) = 3 /\ Failed(3)
    /\ outcomes[1].response = NotStr

\* C3 as claimed (continue-on-error completeness): every command is sent
\* exactly once in list order, the k-th line of the report is about the k-th
\* command, and it is marked "Error - " if and only if the k-th outcome was
\* a SemanticError or a TransportError.
C3_MarkedIffFailed ==
    (pc = "done" /\ continue_on_error /\ InputValid /\ bot) =>
        LET n == Len(commands.items)
        IN  /\ sent = [k \in 1..n |-> [pos |-> k, command |-> Cmd(k)]]
            /\ Len(results_log) = n
            /\ ret = JoinLines(results_log)
            /\ \A k \in 1..n :
                /\ StartsWith(results_log[k], <<"Command '">> \o Cmd(k) \o <<"': ">>)
                /\ StartsWith(results_log[k],
                              <<"Command '">> \o Cmd(k) \o <<"': ", "Error - ">>)
                      <=> Failed(k)

\* C3 as amended: every command is sent exactly once in list order; the
\* report is the newline-join of one entry per command in list order; the
\* entry of a failed command is "Command '<cmd>': Error - <detail>" and the
\* entry of a successful one is "Command '<cmd>': <text>", <text> being the
\* stripped response or the no-output placeholder.  So a failure is always
\* marked, and a success reads as marked only when its own response text
\* begins with "Error - ".
C3_ContinueComplete ==
    (pc = "done" /\ continue_on_error /\ InputValid /\ bot) =>
        LET n == Len(commands.items)
        IN  /\ sent = [k \in 1..n |-> [pos |-> k, command |-> Cmd(k)]]
            /\ Len(results_log) = n
            /\ ret = JoinLines(results_log)
            /\ \A k \in 1..n :
                results_log[k] =
                    <<"Command '">> \o Cmd(k) \o <<"': ">>
                        \o (IF Failed(k) THEN <<"Error - ">> \o Detail(k) ELSE SuccessText(k))

C3_Witness ==
    /\ pc = "done" /\ continue_on_error
    /\ Len(outcomes) = 3
    /\ ~Failed(1) /\ Failed(2) /\ ~Failed(3)
    /\ outcomes[3].response = Str(<<"Error - ", "boom">>)

\* C4 (result count): while the loop runs there is one log entry per
\* answered round trip; the returned report has as many result lines as
\* commands were attempted; under fail-fast that number is at most the
\* (1-based) position of the first failure, and under continue-on-error it
\* is len(commands).
C4_ResultCount ==
    (InputValid /\ bot) =>
        /\ pc \in {"loop", "await"} => Len(results_log) = Len(outcomes)
        /\ pc = "done" =>
            /\ ResultLineCount(ret) = Len(sent)
            /\ ~continue_on_error =>
                  \A k \in 1..Len(outcomes) : Failed(k) => ResultLineCount(ret) <= k
            /\ continue_on_error => ResultLineCount(ret) = Len(commands.items)

C4_Witness ==
    /\ pc = "done" /\ bot /\ continue_on_error
    /\ Len(commands.items) = 3
    /\ outcomes[1].kind = "exception" /\ Failed(2) /\ ~Failed(3)

\* C5 as claimed (report order): for a batch that passed validation, under
\* either policy, the report lists the outcomes of the attempted commands in
\* the order of the command list.
C5_ReportInListOrder ==
    (pc = "done" /\ InputValid) => Mentions(ret) = AttemptedInOrder

\* C5 as amended: the report lists the attempted commands in list order
\* when the loop ran to its end (continue-on-error, or no failure); after a
\* fail-fast stop at position i it names the failing command first and then
\* the commands before i in list order.
C5_ReportOrder ==
    (pc = "done" /\ InputValid) =>
        IF ~continue_on_error /\ outcomes # <<>> /\ Failed(Len(outcomes))
        THEN Mentions(ret) =
                <<Cmd(Len(outcomes))>> \o [k \in 1..(Len(outcomes) - 1) |-> Cmd(k)]
        ELSE Mentions(ret) = AttemptedInOrder

C5_Witness ==
    /\ pc = "done" /\ ~continue_on_error
    /\ Len(outcomes) = 3 /\ Failed(3)
    /\ Cmd(1) # Cmd(2) /\ Cmd(2) # Cmd(3)

\* C6 (pre-flight validation): a call whose chat key is malformed, or whose
\* command list is not a list, is empty, or holds at any position an element
\* that is not a string or is blank, raises ValueError, and nothing was sent.
C6_PreflightAllOrNothing ==
    (Called /\ ~InputValid) =>
        /\ pc = "raised"
        /\ exc.type = "ValueError"
        /\ sent = <<>>
        /\ ret = <<>>

C6_Witness ==
    /\ pc = "raised"
    /\ chat_key = Str(<<"minecraft-", "survival">>)
    /\ Len(commands.items) = 3
    /\ commands.items[1] = Str(<<"say Hello">>)
    /\ commands.items[2] = Str(<<"invalid_command">>)
    /\ commands.items[3] = Str(<<" ", "\t">>)
    /\ bot

\* C7 (connection unavailable): a validated batch whose chat key has no live
\* connection returns the "could not find or connect" report naming the chat
\* key, raises nothing and makes no round trip, under either policy.
C7_ConnectionUnavailable ==
    (Called /\ InputValid /\ ~bot) =>
        /\ pc = "done"
        /\ exc = NoException
        /\ ret = <<"Error: could not find or connect to Minecraft server: ">> \o chat_key.s
        /\ sent = <<>>
        /\ outcomes = <<>>

C7_Witness ==
    /\ pc = "done" /\ ~bot /\ continue_on_error
    /\ Len(commands.items) = 2

\* C8 (no raise for command failures): once validation has passed and a live
\* connection was found, the call never ends in an exception, and a round
\* trip that raised is reported like a semantic error: as the entry
\* "Command '<cmd>': Error - <text>" under continue-on-error, as the head
\* "Error executing command '<cmd>': <text>" of the final report otherwise.
C8_NeverRaises ==
    (Called /\ InputValid /\ bot) =>
        /\ pc \in {"loop", "await", "done"}
        /\ exc = NoException
        /\ \A k \in 1..Len(outcomes) :
              outcomes[k].kind = "exception" =>
                IF continue_on_error
                THEN results_log[k] =
                        <<"Command '">> \o Cmd(k) \o <<"': ", "Error - ">> \o outcomes[k].text
                ELSE /\ pc = "done"
                     /\ k = Len(outcomes)
                     /\ StartsWith(ret, <<"Error executing command '">> \o Cmd(k)
                                            \o <<"': ">> \o outcomes[k].text)

C8_Witness ==
    /\ pc = "done" /\ ~continue_on_error
    /\ Len(outcomes) = 2
    /\ outcomes[2].kind = "exception"

\* C9 (sequential execution): the calls made on the connection are the
\* commands of the list in list order, at most one is in flight, and a
\* command is sent only when every earlier round trip has been answered.
C9_Sequential ==
    /\ Cardinality(inflight) <= 1
    /\ inflight \subseteq {Len(sent)}
    /\ Len(outcomes) + Cardinality(inflight) = Len(sent)
    /\ \A k \in 1..Len(sent) : sent[k] = [pos |-> k, command |-> Cmd(k)]

C9_Witness ==
    /\ pc = "await"
    /\ Len(sent) = 3 /\ Len(outcomes) = 2 /\ inflight = {3}
    /\ Failed(1)

\* C10 (bounded termination, no retry): when every round trip returns or
\* raises, a batch that entered its loop returns; it makes at most
\* len(commands) round trips and sends no position twice.
C10_BoundedTermination ==
    /\ [](/\ Len(sent) <= Len(commands.items)
          /\ \A j, k \in 1..Len(sent) : j # k => sent[j].pos # sent[k].pos)
    /\ (pc \in {"loop", "await"}) ~> (pc = "done")

C10_Witness ==
    /\ pc = "done"
    /\ Len(sent) = 3 /\ Len(commands.items) = 3
    /\ Failed(1) /\ Failed(2) /\ Failed(3)

\* The text s begins with one of the known failure prefixes.
HasKnownPrefix(s) ==
    \E n \in 1..Len(RCON_ERROR_PREFIXES) :
        LET p == RCON_ERROR_PREFIXES[n]
        IN  Len(p) <= Len(s) /\ \A j \in 1..Len(p) : s[j] = p[j]

\* The batch handled the k-th answered round trip as a failure: under
\* continue-on-error its entry is the Error entry of the trimmed response,
\* under fail-fast no entry was logged for it (the batch stopped).
TreatedAsError(k) ==
    IF continue_on_error
    THEN results_log[k] =
            <<"Command '">> \o Cmd(k) \o <<"': ", "Error - ">> \o Detail(k)
    ELSE Len(results_log) < k

\* C11 as claimed (error classification): a response is classified
\* SemanticError if and only if the response text starts with a known
\* failure prefix, whatever came before it and whatever the policy.
C11_ErrorIffRawPrefix ==
    (InputValid /\ bot) =>
        \A k \in 1..Len(outcomes) :
            outcomes[k].kind = "response" =>
                (TreatedAsError(k) <=>
                    (outcomes[k].response.isStr /\ HasKnownPrefix(outcomes[k].response.s)))

\* C11 as amended: a response is classified SemanticError if and only if it
\* is a string whose text, with leading and trailing whitespace removed,
\* starts with a known failure prefix; every other response (empty, blank,
\* not a string, any other text) is a Success.  The classification is a
\* function of that response alone: it holds at every position, after every
\* history of earlier outcomes and under either policy.
C11_ErrorIffTrimmedPrefix ==
    (InputValid /\ bot) =>
        \A k \in 1..Len(outcomes) :
            outcomes[k].kind = "response" =>
                (TreatedAsError(k) <=>
                    (outcomes[k].response.isStr
                        /\ HasKnownPrefix(Strip(outcomes[k].response.s))))

C11_Witness ==
    /\ pc = "done" /\ ~continue_on_error
    /\ Len(outcomes) = 3
    /\ outcomes[1].response = Str(<<"Error - ", "boom">>)
    /\ outcomes[2].response = Str(<<" ">>)
    /\ outcomes[3].response = Str(<<"\n", "Player not found">>)
    /\ Len(results_log) = 2

\* C18 (no empty success text): every entry of the log is
\* "Command '<cmd>': " followed by a text that is neither empty nor blank,
\* and the entry of a successful command whose response is empty, blank or
\* not a string carries the no-output placeholder.
C18_NoEmptySuccessText ==
    (InputValid /\ bot) =>
        \A k \in 1..Len(results_log) :
            LET head == <<"Command '">> \o Cmd(k) \o <<"': ">>
                entry == results_log[k]
                r == outcomes[k].response
            IN  /\ StartsWith(entry, head)
                /\ NonBlank(SubSeq(entry, Len(head) + 1, Len(entry)))
                /\ (outcomes[k].kind = "response" /\ (~r.isStr \/ ~NonBlank(r.s)))
                        => entry = head \o <<"command executed, no output">>

C18_Witness ==
    /\ pc = "done" /\ continue_on_error
    /\ Len(results_log) = 3
    /\ outcomes[1].response = NotStr /\ outcomes[1].kind = "response"
    /\ outcomes[2].response = Str(<<" ">>)
    /\ outcomes[3].kind = "exception" /\ outcomes[3].text = <<>>

-----------------------------------------------------------------------------
(* send_rich_text: values                                                  *)
(*                                                                         *)
(* A JSON value inside a segment is a record [kind, s, b]: null, a string   *)
(* (token sequence s) or a boolean b.  A decoded list element is a record  *)
(* [isDict, keys, val]: keys are the keys the object has, val their values *)
(* (Null for a key it lacks).  A Component has the same seven attributes,   *)
(* Null meaning unset.                                                      *)
(*                                                                         *)
(* The JSON text is a token sequence: "[", "]", "," and whitespace are      *)
(* tokens of their own, and every element of the array is one token whose   *)
(* decoding is tabulated in DecodeValue.  A text the decoder rejects gives  *)
(* the decoder's own description, "<msg>: line l column c (char p)", with   *)
(* the wording and positions of the json module of CPython 3.11.            *)

MaxSegs == 3

Null == [kind |-> "null", s |-> <<>>, b |-> FALSE]
S(s) == [kind |-> "str", s |-> s, b |-> FALSE]
B(b) == [kind |-> "bool", s |-> <<>>, b |-> b]

StyleAttrs == <<"bold", "italic", "underlined", "strikethrough", "obfuscated">>

NoAttrs ==
    [text |-> Null, color |-> Null, bold |-> Null, italic |-> Null,
     underlined |-> Null, strikethrough |-> Null, obfuscated |-> Null]

Dict(keys, val) == [isDict |-> TRUE, keys |-> keys, val |-> val]
NotDict == [isDict |-> FALSE, keys |-> {}, val |-> NoAttrs]

\* The element tokens of the JSON texts tried, with their decoding.
ElementTokens ==
    { "{}",
      "{\"text\": \"Hello \"}",
      "{\"text\": \"World\", \"color\": \"GOLD\", \"bold\": true}",
      "{\"text\": \"x\", \"color\": \"ultraviolet\", \"italic\": false, \"obfuscated\": true}",
      "{\"color\": \"red\", \"underlined\": true}",
      "\"plain string\"" }

DecodeValue(tok) ==
    CASE tok = "{}" -> Dict({}, NoAttrs)
      [] tok = "{\"text\": \"Hello \"}" ->
            Dict({"text"}, [NoAttrs EXCEPT !.text = S(<<"Hello ">>)])
      [] tok = "{\"text\": \"World\", \"color\": \"GOLD\", \"bold\": true}" ->
            Dict({"text", "color", "bold"},
                 [NoAttrs EXCEPT !.text = S(<<"World">>), !.color = S(<<"GOLD">>),
                                 !.bold = B(TRUE)])
      [] tok = "{\"text\": \"x\", \"color\": \"ultraviolet\", \"italic\": false, \"obfuscated\": true}" ->
            Dict({"text", "color", "italic", "obfuscated"},
                 [NoAttrs EXCEPT !.text = S(<<"x">>), !.color = S(<<"ultraviolet">>),
                                 !.italic = B(FALSE), !.obfuscated = B(TRUE)])
      [] tok = "{\"color\": \"red\", \"underlined\": true}" ->
            Dict({"color", "underlined"},
                 [NoAttrs EXCEPT !.color = S(<<"red">>), !.underlined = B(TRUE)])
      [] OTHER -> NotDict

RECURSIVE CommaJoin(_)
CommaJoin(toks) ==
    IF toks = <<>> THEN <<>>
    ELSE IF Len(toks) = 1 THEN toks
    ELSE <<toks[1], ",", " ">> \o CommaJoin(Tail(toks))

ArrayText(toks) == <<"[">> \o CommaJoin(toks) \o <<"]">>

RichTexts ==
    { Str(ArrayText(toks)) : toks \in SeqsUpTo(ElementTokens, MaxSegs) }
    \cup { NotStr,
           Str(<<>>),
           Str(<<" ", "\n">>),
           Str(<<"\n", "[", "{\"text\": \"Hello \"}", "]", "\n">>),
           Str(<<"[", "{}">>),
           Str(<<"[", "{}", ",", "]">>),
           Str(<<"\n", "[", "{}", ",", "\n", " ", "{'text': 'x'}", "]">>),
           Str(<<"[", "]", "]">>),
           Str(<<"{'text': 'x'}">>),
           Str(<<"{}">>) }

PresetNames == { <<"Nekro">> }

\* What an awaited collaborator may raise: [cls, text]; cls ValueError stands
\* for ValueError and its subclasses, RuntimeError for any other Exception.
AwaitErrors ==
    { [cls |-> "ValueError", text |-> <<"invalid value">>],
      [cls |-> "RuntimeError", text |-> <<"connection lost">>] }

-----------------------------------------------------------------------------
(* send_rich_text: pure parts *)

\* The 16 names Color accepts.
Palette ==
    { "black", "dark_blue", "dark_green", "dark_aqua", "dark_red", "dark_purple",
      "gold", "gray", "dark_gray", "blue", "green", "aqua", "red", "light_purple",
      "yellow", "white" }

\* str.lower() on the colour names tried.
Lower(tok) ==
    CASE tok = "GOLD" -> "gold"
      [] tok = "Red" -> "red"
      [] OTHER -> tok

\* Mutant: the colour is passed on without the Color() check.
SegmentColor_Unchecked(seg) ==
    IF "color" \in seg.keys THEN seg.val.color ELSE Null

\* The "color" part of _llm_segment_dict_to_component: Color(str(...).lower()),
\* left out when Color raises ValueError.
SegmentColor(seg) ==
    IF "color" \in seg.keys
          /\ seg.val.color.kind = "str"
          /\ Len(seg.val.color.s) = 1
          /\ Lower(seg.val.color.s[1]) \in Palette
    THEN S(<<Lower(seg.val.color.s[1])>>)
    ELSE Null

StyleValue(seg, attr) ==
    IF attr \in seg.keys
    THEN CASE attr = "bold" -> seg.val.bold
           [] attr = "italic" -> seg.val.italic
           [] attr = "underlined" -> seg.val.underlined
           [] attr = "strikethrough" -> seg.val.strikethrough
           [] attr = "obfuscated" -> seg.val.obfuscated
    ELSE Null

\* _llm_segment_dict_to_component
SegmentToComponent(seg) ==
    [text |-> IF "text" \in seg.keys THEN seg.val.text ELSE S(<<>>),
     color |-> SegmentColor(seg),
     bold |-> StyleValue(seg, "bold"),
     italic |-> StyleValue(seg, "italic"),
     underlined |-> StyleValue(seg, "underlined"),
     strikethrough |-> StyleValue(seg, "strikethrough"),
     obfuscated |-> StyleValue(seg, "obfuscated")]

\* len() of the tokens the JSON texts are made of.
TokenLen(tok) ==
    CASE tok = "{}" -> 2
      [] tok = "{\"text\": \"Hello \"}" -> 18
      [] tok = "{\"text\": \"World\", \"color\": \"GOLD\", \"bold\": true}" -> 48
      [] tok = "{\"text\": \"x\", \"color\": \"ultraviolet\", \"italic\": false, \"obfuscated\": true}" -> 74
      [] tok = "{\"color\": \"red\", \"underlined\": true}" -> 36
      [] tok = "\"plain string\"" -> 14
      [] tok = "{'text': 'x'}" -> 13
      [] OTHER -> 1

\* Where and why the decoder stops inside a token that is not a JSON value:
\* "{'text': 'x'}" opens an object whose first key is not double-quoted.
TokenError(tok) ==
    IF tok = "{'text': 'x'}"
    THEN [msg |-> "Expecting property name enclosed in double quotes", off |-> 1]
    ELSE [msg |-> "Expecting value", off |-> 0]

\* The 0-based character index at which token i of s begins.
RECURSIVE CharPos(_, _)
CharPos(s, i) ==
    IF i <= 1 THEN 0 ELSE CharPos(s, i - 1) + TokenLen(s[i - 1])

\* The index of the last "\n" token before token i, 0 when there is none.
RECURSIVE LastNewline(_, _)
LastNewline(s, i) ==
    IF i <= 1 THEN 0
    ELSE IF s[i - 1] = "\n" THEN i - 1
    ELSE LastNewline(s, i - 1)

RECURSIVE NewlinesBefore(_, _)
NewlinesBefore(s, i) ==
    IF i <= 1 THEN 0
    ELSE NewlinesBefore(s, i - 1) + (IF s[i - 1] = "\n" THEN 1 ELSE 0)

\* str() of the JSONDecodeError raised off characters into token i of s:
\* "<msg>: line <lineno> column <colno> (char <pos>)".
DecodeErrorText(s, msg, i, off) ==
    LET pos == CharPos(s, i) + off
        nl == LastNewline(s, i)
        lineno == NewlinesBefore(s, i) + 1
        colno == IF nl = 0 THEN pos + 1 ELSE pos - CharPos(s, nl)
    IN  <<msg, ": line ">> \o IntToStr(lineno) \o <<" column ">> \o IntToStr(colno)
            \o <<" (char ">> \o IntToStr(pos) \o <<")">>

JsonError(s, msg, i, off) ==
    [ok |-> FALSE, isList |-> FALSE, items |-> <<>>, item |-> NotDict,
     next |-> i, msg |-> DecodeErrorText(s, msg, i, off)]

JsonScalar(tok, next) ==
    [ok |-> TRUE, isList |-> FALSE, items |-> <<>>, item |-> DecodeValue(tok),
     next |-> next, msg |-> <<>>]

JsonList(items, next) ==
    [ok |-> TRUE, isList |-> TRUE, items |-> items, item |-> NotDict,
     next |-> next, msg |-> <<>>]

\* The first position from i on that holds no whitespace.
RECURSIVE SkipWhitespace(_, _)
SkipWhitespace(s, i) ==
    IF i <= Len(s) /\ s[i] \in Whitespace THEN SkipWhitespace(s, i + 1) ELSE i

RECURSIVE JsonValue(_, _)
RECURSIVE JsonArrayItems(_, _, _)

\* The items of an array from position i, which is where a value has to
\* begin; acc holds the items decoded so far.
JsonArrayItems(s, i, acc) ==
    LET value == JsonValue(s, i)
    IN  IF ~value.ok THEN value
        ELSE LET k == SkipWhitespace(s, value.next)
                 items == Append(acc, value.item)
             IN  IF k <= Len(s) /\ s[k] = "]" THEN JsonList(items, k + 1)
                 ELSE IF k > Len(s) \/ s[k] # ","
                      THEN JsonError(s, "Expecting ',' delimiter", k, 0)
                      ELSE JsonArrayItems(s, SkipWhitespace(s, k + 1), items)

\* The scanner at position i, whitespace already skipped: an element token,
\* an array, or nothing that starts a value.
JsonValue(s, i) ==
    IF i > Len(s) THEN JsonError(s, "Expecting value", i, 0)
    ELSE IF s[i] \in ElementTokens THEN JsonScalar(s[i], i + 1)
    ELSE IF s[i] = "["
         THEN LET j == SkipWhitespace(s, i + 1)
              IN  IF j <= Len(s) /\ s[j] = "]" THEN JsonList(<<>>, j + 1)
                  ELSE JsonArrayItems(s, j, <<>>)
    ELSE JsonError(s, TokenError(s[i]).msg, i, TokenError(s[i]).off)

\* json.loads: one value, whitespace around it, and nothing after.
JsonLoads(s) ==
    LET value == JsonValue(s, SkipWhitespace(s, 1))
        end == SkipWhitespace(s, value.next)
    IN  IF ~value.ok THEN value
        ELSE IF end <= Len(s) THEN JsonError(s, "Extra data", end, 0)
        ELSE value

\* Mutant: an object without a "text" key is skipped like a non-object.
RECURSIVE ComposeComponents_RequiresText(_)
ComposeComponents_RequiresText(items) ==
    IF items = <<>> THEN <<>>
    ELSE IF Head(items).isDict /\ "text" \in Head(items).keys
         THEN <<SegmentToComponent(Head(items))>> \o ComposeComponents_RequiresText(Tail(items))
         ELSE ComposeComponents_RequiresText(Tail(items))

\* Mutant: every component is put in front of the earlier ones.
RECURSIVE ComposeComponents_Reversed(_)
ComposeComponents_Reversed(items) ==
    IF items = <<>> THEN <<>>
    ELSE IF Head(items).isDict
         THEN ComposeComponents_Reversed(Tail(items)) \o <<SegmentToComponent(Head(items))>>
         ELSE ComposeComponents_Reversed(Tail(items))

\* The loop of _parse_and_validate_components over segments_data.
RECURSIVE ComposeComponents(_)
ComposeComponents(items) ==
    IF items = <<>> THEN <<>>
    ELSE IF Head(items).isDict
         THEN <<SegmentToComponent(Head(items))>> \o ComposeComponents(Tail(items))
         ELSE ComposeComponents(Tail(items))

ParseOk(components) == [error |-> NoException, components |-> components]
ParseFails(msg) == [error |-> ValueError(msg), components |-> <<>>]

\* Mutant: an empty component list is accepted.
ParseAndValidate_AllowsEmpty(json_str) ==
    LET segments_data == JsonLoads(json_str)
    IN  IF ~segments_data.ok
        THEN ParseFails(<<"Rich text JSON format error: ">> \o segments_data.msg)
        ELSE IF ~segments_data.isList
        THEN ParseFails(<<"Rich text JSON must be a list after parsing.">>)
        ELSE ParseOk(ComposeComponents(segments_data.items))

\* _parse_and_validate_components
ParseAndValidate(json_str) ==
    LET segments_data == JsonLoads(json_str)
    IN  IF ~segments_data.ok
        THEN ParseFails(<<"Rich text JSON format error: ">> \o segments_data.msg)
        ELSE IF ~segments_data.isList
        THEN ParseFails(<<"Rich text JSON must be a list after parsing.">>)
        ELSE LET parsed_components == ComposeComponents(segments_data.items)
             IN  IF parsed_components = <<>>
                 THEN ParseFails(<<"No valid rich text segments to send.">>)
                 ELSE ParseOk(parsed_components)

\* "".join(c.text for c in components if c.text)
RECURSIVE PlainText(_)
PlainText(components) ==
    IF components = <<>> THEN <<>>
    ELSE (IF Head(components).text.kind = "str" THEN Head(components).text.s ELSE <<>>)
            \o PlainText(Tail(components))

PrefixComponent(name) ==
    [NoAttrs EXCEPT !.text = S(<<"<">> \o name \o <<">">>), !.color = S(<<"green">>)]

\* MessageSegment.text(text="", extra=[prefix_component] + components)
RootSegment(name, components) ==
    [text |-> <<>>, extra |-> <<PrefixComponent(name)>> \o components]

ConnectionError(ck) ==
    [type |-> "ConnectionError",
     msg |-> <<"Could not find or connect to Minecraft server: ">> \o ck]

\* Mutant: every exception of the try block is wrapped, ValueError too.
RaisedFrom_WrapsAll(e) ==
    [type |-> "Exception",
     msg |-> <<"Failed to send Minecraft rich text message: ">> \o e.text]

\* The except clauses of send_rich_text: a ValueError is re-raised as it is,
\* any other Exception is wrapped in a new Exception.
RaisedFrom(e) ==
    IF e.cls = "ValueError"
    THEN [type |-> "ValueError", msg |-> e.text]
    ELSE [type |-> "Exception",
          msg |-> <<"Failed to send Minecraft rich text message: ">> \o e.text]

-----------------------------------------------------------------------------
(* send_rich_text: state machine *)

\* The call up to its first await: argument checks, connection lookup,
\* _parse_and_validate_components.
RichCall(ck, js, live) ==
    /\ rt_pc = "idle"
    /\ rt_chat_key' = ck
    /\ rt_json' = js
    /\ rt_bot' = live
    /\ IF ~ValidChatKey(ck)
       THEN /\ rt_pc' = "raised" /\ rt_at' = "validate"
            /\ rt_exc' = ValueError(<<"chat_key invalid, must be of the form 'minecraft-servername'.">>)
            /\ UNCHANGED rt_components
       ELSE IF ~js.isStr \/ Strip(js.s) = <<>>
       THEN /\ rt_pc' = "raised" /\ rt_at' = "validate"
            /\ rt_exc' = ValueError(<<"Rich text JSON string must not be empty.">>)
            /\ UNCHANGED rt_components
       ELSE IF BotMissing(live)
       THEN /\ rt_pc' = "raised" /\ rt_at' = "get_bot"
            /\ rt_exc' = ConnectionError(ck.s)
            /\ UNCHANGED rt_components
       ELSE LET parsed == ParseAndValidate(js.s)
            IN  IF parsed.error # NoException
                THEN /\ rt_pc' = "raised" /\ rt_at' = "validate"
                     /\ rt_exc' = parsed.error
                     /\ UNCHANGED rt_components
                ELSE /\ rt_pc' = "get_channel"
                     /\ rt_components' = parsed.components
                     /\ UNCHANGED <<rt_exc, rt_at>>
    /\ UNCHANGED <<rt_plain, rt_preset, history, mc_out>>

\* await DBChatChannel.get_channel(chat_key) returns.
GetChannelReturns ==
    /\ rt_pc = "get_channel"
    /\ rt_pc' = "get_preset"
    /\ UNCHANGED <<rt_chat_key, rt_json, rt_bot, rt_components, rt_plain, rt_preset,
                   rt_exc, rt_at, history, mc_out>>

\* Mutant: the message is sent without the history push.
GetPresetReturns_SkipsPush(name) ==
    /\ rt_pc = "get_preset"
    /\ rt_preset' = name
    /\ rt_plain' = PlainText(rt_components)
    /\ rt_pc' = "send"
    /\ UNCHANGED <<rt_chat_key, rt_json, rt_bot, rt_components, rt_exc, rt_at,
                   history, mc_out>>

\* await channel.get_preset() returns; the plain text is built and
\* push_bot_message is awaited.
GetPresetReturns(name) ==
    /\ rt_pc = "get_preset"
    /\ rt_preset' = name
    /\ rt_plain' = PlainText(rt_components)
    /\ rt_pc' = "push"
    /\ UNCHANGED <<rt_chat_key, rt_json, rt_bot, rt_components, rt_exc, rt_at,
                   history, mc_out>>

\* await message_service.push_bot_message(...) returns; the root segment is
\* built and bot.send_msg is awaited.
PushReturns ==
    /\ rt_pc = "push"
    /\ history' = Append(history, [chat_key |-> rt_chat_key.s, agent_messages |-> rt_plain])
    /\ rt_pc' = "send"
    /\ UNCHANGED <<rt_chat_key, rt_json, rt_bot, rt_components, rt_plain, rt_preset,
                   rt_exc, rt_at, mc_out>>

\* await bot.send_msg(message=root_segment) returns.
SendReturns ==
    /\ rt_pc = "send"
    /\ mc_out' = Append(mc_out, RootSegment(rt_preset, rt_components))
    /\ rt_pc' = "done"
    /\ UNCHANGED <<rt_chat_key, rt_json, rt_bot, rt_components, rt_plain, rt_preset,
                   rt_exc, rt_at, history>>

\* The awaited call raises e instead of returning.
AwaitRaises(e) ==
    /\ rt_pc \in {"get_channel", "get_preset", "push", "send"}
    /\ rt_exc' = RaisedFrom(e)
    /\ rt_at' = rt_pc
    /\ rt_pc' = "raised"
    /\ UNCHANGED <<rt_chat_key, rt_json, rt_bot, rt_components, rt_plain, rt_preset,
                   history, mc_out>>

\* One call of send_rich_text; nothing else runs.
RichNext ==
    \/ /\ rt_pc = "idle"
       /\ \E ck \in ChatKeys, js \in RichTexts, live \in BOOLEAN : RichCall(ck, js, live)
       /\ UNCHANGED <<batch_vars, pair_vars, norm_vars>>
    \/ GetChannelReturns /\ UNCHANGED <<batch_vars, pair_vars, norm_vars>>
    \/ (\E name \in PresetNames : GetPresetReturns(name)) /\ UNCHANGED <<batch_vars, pair_vars, norm_vars>>
    \/ PushReturns /\ UNCHANGED <<batch_vars, pair_vars, norm_vars>>
    \/ SendReturns /\ UNCHANGED <<batch_vars, pair_vars, norm_vars>>
    \/ (\E e \in AwaitErrors : AwaitRaises(e)) /\ UNCHANGED <<batch_vars, pair_vars, norm_vars>>

RichSpec == Init /\ [][RichNext]_vars

-----------------------------------------------------------------------------
(* Properties of send_rich_text *)

RichCalled == rt_pc # "idle"

RichKeyOk ==
    /\ rt_chat_key.isStr
    /\ rt_chat_key.s # <<>>
    /\ rt_chat_key.s[1] = "minecraft-"

RichJsonBlank == ~rt_json.isStr \/ ~NonBlank(rt_json.s)

\* The decoded argument, and the objects among its elements, in order.
Parsed == JsonLoads(rt_json.s)

Objects == SelectSeq(Parsed.items, LAMBDA x : x.isDict)

\* The descriptor JSON is not a usable one: blank, unparseable, not a list,
\* or without any object element.
RichJsonMalformed ==
    \/ RichJsonBlank
    \/ ~Parsed.ok
    \/ ~Parsed.isList
    \/ Objects = <<>>

\* The text field of a descriptor: "" when it has none.
TextOf(seg) == IF "text" \in seg.keys THEN seg.val.text.s ELSE <<>>

RECURSIVE ConcatTexts(_)
ConcatTexts(segs) ==
    IF segs = <<>> THEN <<>> ELSE TextOf(Head(segs)) \o ConcatTexts(Tail(segs))

RECURSIVE ConcatComponentTexts(_)
ConcatComponentTexts(cs) ==
    IF cs = <<>> THEN <<>> ELSE Head(cs).text.s \o ConcatComponentTexts(Tail(cs))

\* compose has returned a component list.
Composed == RichCalled /\ rt_components # <<>>

\* C13 (send_rich_text error outcomes), each cause taken with the rest of
\* the call in order: a malformed chat key raises ValueError; with a good
\* key and a live connection a malformed descriptor JSON raises ValueError;
\* with good arguments and no live connection the call raises
\* ConnectionError; and an exception raised by the history push or by the
\* send reaches the caller as a generic Exception that wraps it.
C13_RichTextErrors ==
    RichCalled =>
        /\ ~RichKeyOk => (rt_pc = "raised" /\ rt_exc.type = "ValueError")
        /\ (RichKeyOk /\ rt_bot /\ RichJsonMalformed)
                => (rt_pc = "raised" /\ rt_exc.type = "ValueError")
        /\ (RichKeyOk /\ ~RichJsonMalformed /\ ~rt_bot)
                => (rt_pc = "raised" /\ rt_exc.type = "ConnectionError")
        /\ (rt_pc = "raised" /\ rt_at \in {"push", "send"})
                => (/\ rt_exc.type = "Exception"
                    /\ StartsWith(rt_exc.msg,
                                  <<"Failed to send Minecraft rich text message: ">>))

\* C14 (validation precedes side effects): when the call fails on one of
\* its validations (malformed chat key, blank or unparseable JSON, JSON that
\* is not a list, no valid segment), nothing was pushed to the history and
\* nothing was sent; and no call with such arguments ever gets past them.
C14_ValidationBeforeEffects ==
    /\ (rt_pc = "raised" /\ rt_at = "validate")
            => (rt_exc.type = "ValueError" /\ history = <<>> /\ mc_out = <<>>)
    /\ (RichCalled /\ (~RichKeyOk \/ RichJsonMalformed))
            => (rt_pc = "raised" /\ history = <<>> /\ mc_out = <<>>)

C14_Witness ==
    /\ rt_pc = "raised" /\ rt_at = "validate" /\ rt_bot
    /\ rt_json = Str(<<"[", "\"plain string\"", ",", " ", "\"plain string\"", "]">>)

\* C15 (compose succeeds exactly with an object element): for a descriptor
\* that parses to a list, compose returns one component per object element
\* when there is at least one, even when the objects have no text; with no
\* object element (empty list, or non-objects only) it fails with the
\* "no valid segments" ValueError.
C15_ComposeSucceedsIffObject ==
    (RichCalled /\ RichKeyOk /\ rt_bot /\ ~RichJsonBlank /\ Parsed.ok /\ Parsed.isList) =>
        IF Objects # <<>>
        THEN /\ rt_at # "validate"
             /\ Len(rt_components) = Len(Objects)
        ELSE /\ rt_pc = "raised" /\ rt_at = "validate"
             /\ rt_exc = ValueError(<<"No valid rich text segments to send.">>)

C15_Witness ==
    /\ rt_pc = "get_channel"
    /\ rt_json = Str(<<"[", "{}", ",", " ", "{}", "]">>)
    /\ Len(rt_components) = 2

\* C16 (order-preserving map): the components are the object elements of
\* the input in input order, one each, non-objects left out; and the plain
\* text built from them, which is what gets pushed to the history, is the
\* concatenation of the descriptors' text fields in that order.
C16_OrderPreservingMap ==
    Composed =>
        /\ Len(rt_components) = Len(Objects)
        /\ \A k \in 1..Len(Objects) : rt_components[k].text.s = TextOf(Objects[k])
        /\ rt_pc \in {"push", "send", "done"} => rt_plain = ConcatTexts(Objects)
        /\ \A h \in 1..Len(history) : history[h].agent_messages = ConcatTexts(Objects)

C16_Witness ==
    /\ rt_pc = "done"
    /\ rt_json = Str(<<"[", "{\"text\": \"Hello \"}", ",", " ", "\"plain string\"", ",", " ",
                       "{\"text\": \"World\", \"color\": \"GOLD\", \"bold\": true}", "]">>)
    /\ history = <<[chat_key |-> <<"minecraft-", "survival">>,
                    agent_messages |-> <<"Hello ", "World">>]>>

\* The colour name of a descriptor is one of the palette, case ignored.
ColourKnown(seg) ==
    /\ seg.val.color.kind = "str"
    /\ Len(seg.val.color.s) = 1
    /\ Lower(seg.val.color.s[1]) \in Palette

\* The component keeps the text and every style flag the descriptor has.
KeepsTextAndStyle(c, seg) ==
    /\ c.text.s = TextOf(seg)
    /\ "bold" \in seg.keys => c.bold = seg.val.bold
    /\ "italic" \in seg.keys => c.italic = seg.val.italic
    /\ "underlined" \in seg.keys => c.underlined = seg.val.underlined
    /\ "strikethrough" \in seg.keys => c.strikethrough = seg.val.strikethrough
    /\ "obfuscated" \in seg.keys => c.obfuscated = seg.val.obfuscated

\* C19 (unknown colour is non-fatal and local): a list holding a descriptor
\* with an unknown colour still composes; that descriptor's component has no
\* colour and keeps its text and style flags; every other descriptor's
\* component has its own text, flags and, when it names a known colour, that
\* colour in lower case.
C19_UnknownColour ==
    (RichCalled /\ RichKeyOk /\ rt_bot /\ ~RichJsonMalformed) =>
        /\ rt_at # "validate"
        /\ Len(rt_components) = Len(Objects)
        /\ \A k \in 1..Len(Objects) :
            /\ KeepsTextAndStyle(rt_components[k], Objects[k])
            /\ rt_components[k].color =
                    IF "color" \in Objects[k].keys /\ ColourKnown(Objects[k])
                    THEN S(<<Lower(Objects[k].val.color.s[1])>>)
                    ELSE Null

C19_Witness ==
    /\ rt_pc = "get_channel"
    /\ Len(rt_components) = 3
    /\ rt_components[1].color = S(<<"gold">>)
    /\ rt_components[2].color = Null /\ rt_components[2].obfuscated = B(TRUE)
    /\ Objects[2].val.color = S(<<"ultraviolet">>)
    /\ rt_components[3].color = S(<<"red">>)

\* C20 (push, then send): a message reaches the server only after the plain
\* text of the same call was pushed to the history; when the push or an
\* earlier await fails nothing is sent; when the send fails the pushed entry
\* stays in the history although the server got no message.
C20_PushBeforeSend ==
    /\ \A m \in 1..Len(mc_out) :
            /\ Len(history) >= m
            /\ history[m].agent_messages = ConcatComponentTexts(Tail(mc_out[m].extra))
    /\ rt_pc = "send" => Len(history) = 1
    /\ (rt_pc = "raised" /\ rt_at \in {"get_channel", "get_preset", "push"})
            => (history = <<>> /\ mc_out = <<>>)
    /\ (rt_pc = "raised" /\ rt_at = "send")
            => (/\ mc_out = <<>>
                /\ history = <<[chat_key |-> rt_chat_key.s, agent_messages |-> rt_plain]>>)

C20_Witness ==
    /\ rt_pc = "raised" /\ rt_at = "send"
    /\ Len(history) = 1 /\ history[1].agent_messages = <<"Hello ", "x">>
    /\ mc_out = <<>>

-----------------------------------------------------------------------------
(* The message matcher of the Minecraft adapter                             *)
(*                                                                          *)
(* Every chat event is turned into one PlatformMessage and handed to        *)
(* collect_message. A timestamp is a non-negative number given by its whole *)
(* part and its tenths, so that int() has a fraction to drop.               *)

MaxEvents == 2

ServerNames == { <<"survival">>, <<"creative">> }

PlayerUuids == { "069a79f4-44e9-4726-a5be-fca90e38aaf5",
                 "61699b2e-d327-4a01-9f1e-0ea8c3f06bc6" }

\* event.message_id: None, "", " ", "abc", " abc "
MessageIds ==
    { NotStr, Str(<<>>), Str(<<" ">>), Str(<<"abc">>), Str(<<" ", "abc", " ">>) }

Timestamps == { [whole |-> 0, tenths |-> 0], [whole |-> 1700000000, tenths |-> 9] }

Events ==
    [server_name : ServerNames, uuid : PlayerUuids, message_id : MessageIds,
     timestamp : Timestamps, text : { <<"hello">> }]

\* hashlib.sha1(uuid.encode("utf-8")).hexdigest()[:10] of the uuids tried.
Sha1Hex10(uuid) ==
    CASE uuid = "069a79f4-44e9-4726-a5be-fca90e38aaf5" -> "eb6b06214c"
      [] uuid = "61699b2e-d327-4a01-9f1e-0ea8c3f06bc6" -> "0b7d2e1bfe"

\* int(event.timestamp), for a non-negative timestamp.
IntPart(ts) == ts.whole

\* Python truth value of an Optional[str].
Truthy(v) == v.isStr /\ v.s # <<>>

ShortPlayerId(e) == Sha1Hex10(e.uuid)

SynthesizedId(e) ==
    <<"mc_">> \o e.server_name \o <<"_", ShortPlayerId(e), "_">>
        \o IntToStr(IntPart(e.timestamp))

\* Mutant: the protocol id is taken whenever it is truthy, blank or not.
MsgId_Unstripped(e) ==
    IF Truthy(e.message_id) THEN e.message_id.s ELSE SynthesizedId(e)

\* msg_id: the protocol id as it came, when it is not blank.
MsgId(e) ==
    IF Truthy(e.message_id) /\ Strip(e.message_id.s) # <<>>
    THEN e.message_id.s
    ELSE SynthesizedId(e)

PlatformChannel(e) == [channel_id |-> e.server_name, channel_name |-> e.server_name]

PlatformUser(e) == [platform_name |-> "Minecraft", user_id |-> ShortPlayerId(e)]

PlatformMessage(e) ==
    [message_id |-> MsgId(e),
     sender_id |-> ShortPlayerId(e),
     content_text |-> e.text,
     timestamp |-> IntPart(e.timestamp)]

\* The handler runs on one chat event, up to and including collect_message.
OnMessage(e) ==
    /\ events' = Append(events, e)
    /\ collected' = Append(collected, [channel |-> PlatformChannel(e),
                                       user |-> PlatformUser(e),
                                       message |-> PlatformMessage(e)])

NormNext ==
    /\ Len(events) < MaxEvents
    /\ \E e \in Events : OnMessage(e)
    /\ UNCHANGED <<batch_vars, rich_vars, pair_vars>>

NormSpec == Init /\ [][NormNext]_vars

\* The protocol id of an event is there and not blank.
HasProtocolId(e) == e.message_id.isStr /\ NonBlank(e.message_id.s)

\* C17 (message id selection): the message id of every collected message is
\* the event's protocol id, unchanged, when that id is present and not blank
\* after trimming, and is otherwise "mc_<server>_<user id>_<seconds>" built
\* from the message's channel, user id and whole-second timestamp; it is
\* never empty.
C17_MessageIdSelection ==
    \A k \in 1..Len(collected) :
        LET e == events[k]
            m == collected[k]
        IN  /\ HasProtocolId(e) => m.message.message_id = e.message_id.s
            /\ ~HasProtocolId(e) =>
                    m.message.message_id =
                        <<"mc_">> \o m.channel.channel_id \o <<"_", m.user.user_id, "_">>
                            \o IntToStr(m.message.timestamp)
            /\ m.message.timestamp = e.timestamp.whole
            /\ m.message.message_id # <<>>
            /\ NonBlank(m.message.message_id)

C17_Witness ==
    /\ Len(collected) = 2
    /\ events[1].message_id = Str(<<" ">>)
    /\ events[1].timestamp = [whole |-> 1700000000, tenths |-> 9]
    /\ collected[1].message.message_id =
            <<"mc_", "survival", "_", "eb6b06214c", "_",
              "1", "7", "0", "0", "0", "0", "0", "0", "0", "0">>
    /\ events[2].message_id = Str(<<" ", "abc", " ">>)
    /\ collected[2].message.message_id = <<" ", "abc", " ">>

-----------------------------------------------------------------------------
(* Two calls of execute_rcon_commands running concurrently                  *)
(*                                                                          *)
(* Both calls passed the pre-flight checks and got the connection of the    *)
(* same server; each has its own arguments and its own results_log, and     *)
(* suspends at its own "await bot.send_rcon_command". The event loop runs   *)
(* them in any interleaving. Each call has commands of its own, so that a   *)
(* report line tells which call it came from.                               *)

MaxPairCmds == 2

\* The commands of each call are the first few of its script.
BatchScript(b) ==
    IF b = 1
    THEN << <<"say one">>, <<"list">>, <<"time query daytime">>, <<"seed">> >>
    ELSE << <<"kill Bob">>, <<"weather clear">>, <<"say two">>, <<"difficulty">> >>

PairCommandLists(b) ==
    { SubSeq(BatchScript(b), 1, n) : n \in 1..MaxPairCmds }

\* What a round trip can produce: a response that is a success, a response
\* that is a semantic error, or an exception.
PairOutcomes ==
    { [kind |-> "response", response |-> Str(<<"Done">>), text |-> <<>>],
      [kind |-> "response",
       response |-> Str(<<"Unknown or incomplete command", ", see below for error">>),
       text |-> <<>>],
      [kind |-> "exception", response |-> NotStr, text |-> <<"Connection reset by peer">>] }

\* The outcome is one of the two failures.
OutcomeFailed(o) ==
    \/ o.kind = "exception"
    \/ IsError(ResponseMsg(o.response))

\* str(e) of the exception, or the stripped response.
OutcomeDetail(o) ==
    IF o.kind = "exception" THEN o.text ELSE ResponseMsg(o.response)

\* The entry appended to results_log for a command and its outcome.
LogEntry(command, o) ==
    IF OutcomeFailed(o)
    THEN ErrorLine(command, OutcomeDetail(o))
    ELSE SuccessLine(command, ResultStr(OutcomeDetail(o)))

\* The loop body once the awaited round trip has produced o: the locals of
\* the call afterwards.
AfterOutcome(task, o) ==
    LET command == task.commands[task.idx]
    IN  IF OutcomeFailed(o) /\ ~task.continue_on_error
        THEN [task EXCEPT !.ret = ErrorResponse(command, OutcomeDetail(o), task.results_log),
                          !.pc = "done",
                          !.outcomes = Append(@, o)]
        ELSE [task EXCEPT !.results_log = Append(@, LogEntry(command, o)),
                          !.idx = @ + 1,
                          !.pc = "loop",
                          !.outcomes = Append(@, o)]

\* The whole loop as a function of the outcomes, for a call that runs alone:
\* the report returned after the commands from position k on, given the log
\* so far.
RECURSIVE RunAlone(_, _, _, _, _)
RunAlone(cmds, coe, outs, k, log) ==
    IF k > Len(cmds)
    THEN JoinLines(log)
    ELSE IF OutcomeFailed(outs[k]) /\ ~coe
         THEN ErrorResponse(cmds[k], OutcomeDetail(outs[k]), log)
         ELSE RunAlone(cmds, coe, outs, k + 1, Append(log, LogEntry(cmds[k], outs[k])))

\* A call starts and reaches its for loop.
PairCall(b, cmds, coe) ==
    /\ tasks[b].pc = "idle"
    /\ tasks' = [tasks EXCEPT ![b] = [IdleTask EXCEPT !.pc = "loop",
                                                      !.commands = cmds,
                                                      !.continue_on_error = coe]]
    /\ UNCHANGED <<pending, answered>>

\* Loop head of call b: its next command goes out and the call suspends.
PairSend(b) ==
    /\ tasks[b].pc = "loop"
    /\ tasks[b].idx <= Len(tasks[b].commands)
    /\ tasks' = [tasks EXCEPT ![b].pc = "await"]
    /\ pending' = pending \cup {[task |-> b, command |-> tasks[b].commands[tasks[b].idx]]}
    /\ UNCHANGED answered

\* Mutant: results_log is one list shared by both calls.
PairRecv_SharedLog(b, o) ==
    /\ tasks[b].pc = "await"
    /\ pending' = pending \ {[task |-> b, command |-> tasks[b].commands[tasks[b].idx]]}
    /\ answered' = Append(answered, b)
    /\ tasks' = [t \in BatchIds |->
                    IF t = b
                    THEN AfterOutcome(tasks[b], o)
                    ELSE [tasks[t] EXCEPT !.results_log = AfterOutcome(tasks[b], o).results_log]]

\* The round trip of call b ends with outcome o and b runs its loop body.
PairRecv(b, o) ==
    /\ tasks[b].pc = "await"
    /\ pending' = pending \ {[task |-> b, command |-> tasks[b].commands[tasks[b].idx]]}
    /\ answered' = Append(answered, b)
    /\ tasks' = [tasks EXCEPT ![b] = AfterOutcome(@, o)]

\* The for loop of call b is exhausted.
PairExit(b) ==
    /\ tasks[b].pc = "loop"
    /\ tasks[b].idx > Len(tasks[b].commands)
    /\ tasks' = [tasks EXCEPT ![b].ret = JoinLines(tasks[b].results_log),
                              ![b].pc = "done"]
    /\ UNCHANGED <<pending, answered>>

PairNext ==
    \/ \E b \in BatchIds :
        /\ tasks[b].pc = "idle"
        /\ \E cmds \in PairCommandLists(b), coe \in BOOLEAN : PairCall(b, cmds, coe)
        /\ UNCHANGED <<batch_vars, rich_vars, norm_vars>>
    \/ (\E b \in BatchIds : PairSend(b)) /\ UNCHANGED <<batch_vars, rich_vars, norm_vars>>
    \/ \E b \in BatchIds :
        /\ tasks[b].pc = "await"
        /\ \E o \in PairOutcomes : PairRecv(b, o)
        /\ UNCHANGED <<batch_vars, rich_vars, norm_vars>>
    \/ (\E b \in BatchIds : PairExit(b)) /\ UNCHANGED <<batch_vars, rich_vars, norm_vars>>

PairSpec == Init /\ [][PairNext]_vars

\* In the single-call machine, the pure loop gives the report of every call
\* that ran its loop to the end.
RunAloneIsTheReport ==
    (pc = "done" /\ InputValid /\ bot) =>
        ret = RunAlone([k \in 1..Len(commands.items) |-> commands.items[k].s],
                       continue_on_error, outcomes, 1, <<>>)

\* The commands named by the lines of a report that open with "Command '".
RECURSIVE NamedCommands(_)
NamedCommands(s) ==
    IF s = <<>> THEN {}
    ELSE IF Head(s) \in {"Command '", "Error executing command '"} /\ Len(s) >= 2
         THEN {s[2]} \cup NamedCommands(Tail(s))
         ELSE NamedCommands(Tail(s))

\* C12 (batch isolation): with two calls running concurrently and their
\* round trips interleaved in any order, the report each call returns names
\* only commands of that call, and equals the report of the same commands,
\* policy and per-command outcomes run alone.
C12_BatchIsolation ==
    \A b \in BatchIds :
        tasks[b].pc = "done" =>
            /\ tasks[b].ret = RunAlone(tasks[b].commands, tasks[b].continue_on_error,
                                       tasks[b].outcomes, 1, <<>>)
            /\ \A c \in NamedCommands(tasks[b].ret) :
                    \E k \in 1..Len(tasks[b].commands) : tasks[b].commands[k] = <<c>>

\* Both calls done, the round trips of the second call having happened
\* between the first and the last round trip of the first call.
C12_Witness ==
    /\ tasks[1].pc = "done" /\ tasks[2].pc = "done"
    /\ answered = <<1, 2, 2, 1>>
    /\ Len(tasks[1].outcomes) = 2 /\ Len(tasks[2].outcomes) = 2
    /\ tasks[1].continue_on_error /\ tasks[2].continue_on_error
    /\ NamedCommands(tasks[1].ret) = {"say one", "list"}
    /\ NamedCommands(tasks[2].ret) = {"kill Bob", "weather clear"}
====
